---- MODULE Spec2Model ----
(***************************************************************************)
(* Supabase Event Manager (src/app.py): a Streamlit page over the backend   *)
(* table "events" (id, data).  The model has the backend table, the four    *)
(* repository functions, and, per browser session, the session state, the   *)
(* widget state the toolkit keeps between runs of the script, and the       *)
(* position of the running script.                                          *)
(*                                                                          *)
(* Representation.  A Python dict is a sequence of <<key, value>> pairs     *)
(* with distinct keys, in insertion order.  A DataFrame with the columns    *)
(* Attribute and Prompt is a sequence of records.  JSON text is a sequence  *)
(* of tokens.  None is the string NoneV; an empty cell of a data editor is  *)
(* None.                                                                    *)
(***************************************************************************)
EXTENDS Integers, Sequences, FiniteSets, TLC

\* ------------------------------------------------------------------ bounds
\* rows an operator's edits may bring a data editor to
MaxRows == 2
\* operator interactions (widget changes, button presses) in one behaviour
MaxClicks == 3

\* ------------------------------------------------------------ finite domains
NoneV == "<None>"
Sessions == {"s1", "s2"}
Ids == {"e1", "e2"}
AttributeCells == {NoneV, "a", "b"}
PromptCells == {NoneV, "x"}
ArgKeys == {"", "a", "b"}
ArgValues == {"", "x"}

\* --------------------------------------------------------------- Python data
\* Truth value of a str or None in `if key and value` / `if row["Attribute"]`.
Truthy(v) == v \notin {"", NoneV}

Range(s) == {s[i] : i \in 1..Len(s)}

DictKeys(d) == {d[i][1] : i \in 1..Len(d)}

\* d[k] = v on an insertion-ordered dict: an existing key keeps its position.
DictSet(d, k, v) ==
    IF k \in DictKeys(d)
    THEN [i \in 1..Len(d) |-> IF d[i][1] = k THEN <<k, v>> ELSE d[i]]
    ELSE Append(d, <<k, v>>)

\* pd.DataFrame(list(data_dict.items()), columns=["Attribute", "Prompt"])
FrameOfDict(d) == [i \in 1..Len(d) |-> [Attribute |-> d[i][1], Prompt |-> d[i][2]]]

EmptyFrame == <<>>

\* {row["Attribute"]: row["Prompt"] for _, row in df.iterrows() if row["Attribute"]}
RECURSIVE DictOfFrame(_)
DictOfFrame(df) ==
    IF df = <<>> THEN <<>>
    ELSE LET n == Len(df)
             d == DictOfFrame(SubSeq(df, 1, n - 1))
             row == df[n]
         IN IF Truthy(row.Attribute) THEN DictSet(d, row.Attribute, row.Prompt) ELSE d

\* A filter that tests the key only.
formatted_data_keep_empty_values(d) == SelectSeq(d, LAMBDA p : Truthy(p[1]))

\* {key: value for key, value in event_data.items() if key and value}
formatted_data(d) == SelectSeq(d, LAMBDA p : Truthy(p[1]) /\ Truthy(p[2]))

\* json.dumps of a dict of str to str: { k : v , k : v }
RECURSIVE json_dumps_items(_)
json_dumps_items(d) ==
    IF d = <<>> THEN <<>>
    ELSE IF Len(d) = 1 THEN <<d[1][1], ":", d[1][2]>>
    ELSE <<d[1][1], ":", d[1][2], ",">> \o json_dumps_items(Tail(d))

json_dumps(d) == <<"{">> \o json_dumps_items(d) \o <<"}">>

\* json.loads of such a text: the items between the braces, a repeated key
\* keeping its first position and its last value.
RECURSIVE json_loads_items(_, _)
json_loads_items(t, d) ==
    IF Len(t) < 3 THEN d
    ELSE json_loads_items(SubSeq(t, 5, Len(t)), DictSet(d, t[1], t[3]))

json_loads(t) == json_loads_items(SubSeq(t, 2, Len(t) - 1), <<>>)

\* ------------------------------------------------------------------- state
VARIABLES
    db,               \* the backend table "events": rows [id, data], data JSON text
    calls,            \* ghost: the last two repository writes, latest last (see Write)
    clicks,           \* operator interactions left
    pc,               \* per session: where the script run is
    trigger,          \* per session: the interaction that started the current run
    log,              \* per session: the backend writes issued in the current run
    session_keys,     \* per session: the keys present in st.session_state
    new_data_df,      \* st.session_state.new_data_df
    edit_event_id,    \* st.session_state.edit_event_id
    edit_data_df,     \* st.session_state.edit_data_df
    new_event_id,     \* value of the text input "Enter Event ID"
    new_event,        \* widget state of the data editor key="new_event"
    edit_event,       \* widget state of the data editor key="edit_event"
    edit_select,      \* widget state of the selectbox "Select Event to Edit"
    delete_select,    \* widget state of the selectbox "Select Event to Delete"
    page              \* per session: the parts of tab3/tab4 on the page

vars == <<db, calls, clicks, pc, trigger, log, session_keys, new_data_df,
          edit_event_id, edit_data_df, new_event_id, new_event, edit_event,
          edit_select, delete_select, page>>

ui_vars == <<clicks, pc, trigger, log, session_keys, new_data_df,
             edit_event_id, edit_data_df, new_event_id, new_event, edit_event,
             edit_select, delete_select, page>>

\* ------------------------------------------------------- the backend table
TableIds(t) == {t[i].id : i \in 1..Len(t)}

RowOf(t, id) == t[CHOOSE i \in 1..Len(t) : t[i].id = id]

\* supabase.table("events").insert(row): the primary key rejects a second row
\* with the same id, and the call raises.
InsertOk(t, row) == row.id \notin TableIds(t)

Insert(t, row) == IF InsertOk(t, row) THEN Append(t, row) ELSE t

\* An update that inserts the row when none matches (an upsert).
UpdateAppendsRow(t, id, text) ==
    IF id \in TableIds(t)
    THEN [i \in 1..Len(t) |-> IF t[i].id = id THEN [t[i] EXCEPT !.data = text] ELSE t[i]]
    ELSE Append(t, [id |-> id, data |-> text])

\* supabase.table("events").update({"data": text}).eq("id", id)
UpdateWhere(t, id, text) ==
    [i \in 1..Len(t) |-> IF t[i].id = id THEN [t[i] EXCEPT !.data = text] ELSE t[i]]

\* supabase.table("events").delete().eq("id", id)
DeleteWhere(t, id) == SelectSeq(t, LAMBDA r : r.id # id)

\* ---------------------------------------------------------- the repository
\* fetch_events(): every row, its data parsed when it is a str (it always is:
\* add_event and update_event store json.dumps text).
fetch_events(t) == [i \in 1..Len(t) |-> [id |-> t[i].id, data |-> json_loads(t[i].data)]]

EventIds(events) == [i \in 1..Len(events) |-> events[i].id]

\* add_event without the filter of line 37.
add_event_unfiltered(t, event_id, event_data) ==
    Insert(t, [id |-> event_id, data |-> json_dumps(event_data)])

\* the table after add_event(event_id, event_data)
add_event(t, event_id, event_data) ==
    Insert(t, [id |-> event_id, data |-> json_dumps(formatted_data(event_data))])

\* d.update(e) on insertion-ordered dicts
RECURSIVE DictUpdate(_, _)
DictUpdate(d, e) ==
    IF e = <<>> THEN d ELSE DictUpdate(DictSet(d, e[1][1], e[1][2]), Tail(e))

\* An update that merges the new entries into the stored mapping.
update_event_merge(t, event_id, new_data) ==
    IF event_id \in TableIds(t)
    THEN UpdateWhere(t, event_id,
            json_dumps(DictUpdate(json_loads(RowOf(t, event_id).data), formatted_data(new_data))))
    ELSE t

\* the table after update_event(event_id, new_data)
update_event(t, event_id, new_data) ==
    UpdateWhere(t, event_id, json_dumps(formatted_data(new_data)))

\* the table after delete_event(event_id)
delete_event(t, event_id) == DeleteWhere(t, event_id)

\* ------------------------------------------------------- toolkit widgets
Rows == [Attribute : AttributeCells, Prompt : PromptCells]

\* One edit of the operator in a data editor with num_rows="dynamic": a row
\* added, a row deleted, or one cell changed.
EditsOf(f) ==
    {Append(f, r) : r \in {r \in Rows : Len(f) < MaxRows}}
    \cup {SubSeq(f, 1, i - 1) \o SubSeq(f, i + 1, Len(f)) : i \in 1..Len(f)}
    \cup {[f EXCEPT ![i].Attribute = v] : i \in 1..Len(f), v \in AttributeCells}
    \cup {[f EXCEPT ![i].Prompt = v] : i \in 1..Len(f), v \in PromptCells}

\* A widget the toolkit holds no state for.
NoEditor == [exists |-> FALSE, data |-> EmptyFrame, value |-> EmptyFrame]

NoSelect == [exists |-> FALSE, options |-> <<>>, value |-> NoneV]

\* st.data_editor(data, num_rows="dynamic", key=...): the toolkit keeps the
\* operator's edits under the key for as long as the call's arguments are the
\* same; called with another frame, the editor starts again from that frame.
\* The value is the frame the call returns and the page shows.
data_editor(w, data) ==
    IF w.exists /\ w.data = data THEN w
    ELSE [exists |-> TRUE, data |-> data, value |-> data]

\* st.selectbox(label, options): the operator's choice is kept while the
\* options are the same; with other options the first one is selected (None
\* when there is none).
selectbox(w, options) ==
    IF w.exists /\ w.options = options THEN w
    ELSE [exists |-> TRUE, options |-> options,
          value |-> IF options = <<>> THEN NoneV ELSE options[1]]

\* next((event for event in events if event["id"] == id), None)
HasEvent(events, id) == \E i \in 1..Len(events) : events[i].id = id

EventOf(events, id) == events[CHOOSE i \in 1..Len(events) : events[i].id = id]

\* ------------------------------------------------------------- ghost state
\* A repository write as the ghost state records it: the call, whether it
\* returned (ok), and the row of that id before the call (had, before).
Write(op, id, arg, ok, by) ==
    [op |-> op, id |-> id, arg |-> arg, ok |-> ok, by |-> by,
     had |-> id \in TableIds(db),
     before |-> IF id \in TableIds(db) THEN json_loads(RowOf(db, id).data) ELSE <<>>]

\* the window of the last two writes
Record(w) == IF Len(calls) < 2 THEN Append(calls, w) ELSE <<calls[2], w>>

Last == calls[Len(calls)]

\* ------------------------------------------------------------ interactions
\* An interaction happens on an idle page and starts one run of the script.
CanClick(s) == pc[s] = "idle" /\ clicks > 0

StartRun(s, trig) ==
    /\ pc' = [pc EXCEPT ![s] = "tab1"]
    /\ trigger' = [trigger EXCEPT ![s] = trig]
    /\ log' = [log EXCEPT ![s] = <<>>]
    /\ clicks' = clicks - 1
    /\ UNCHANGED <<db, calls, session_keys, new_data_df, edit_event_id, edit_data_df, page>>

\* the operator types into "Enter Event ID"
TypeId(s) ==
    \E v \in Ids \cup {""} :
        /\ CanClick(s)
        /\ v # new_event_id[s]
        /\ new_event_id' = [new_event_id EXCEPT ![s] = v]
        /\ StartRun(s, "widget")
        /\ UNCHANGED <<new_event, edit_event, edit_select, delete_select>>

\* the operator edits the table of the Add tab
EditNewTable(s) ==
    \E f \in EditsOf(new_event[s].value) :
        /\ CanClick(s)
        /\ new_event[s].exists
        /\ f # new_event[s].value
        /\ new_event' = [new_event EXCEPT ![s].value = f]
        /\ StartRun(s, "widget")
        /\ UNCHANGED <<new_event_id, edit_event, edit_select, delete_select>>

\* the operator picks another event in "Select Event to Edit"
SelectEdit(s) ==
    \E id \in Range(edit_select[s].options) :
        /\ CanClick(s)
        /\ "tab3" \in page[s]
        /\ id # edit_select[s].value
        /\ edit_select' = [edit_select EXCEPT ![s].value = id]
        /\ StartRun(s, "widget")
        /\ UNCHANGED <<new_event_id, new_event, edit_event, delete_select>>

\* the operator edits the table of the Edit tab
EditEditTable(s) ==
    \E f \in EditsOf(edit_event[s].value) :
        /\ CanClick(s)
        /\ "editor" \in page[s]
        /\ f # edit_event[s].value
        /\ edit_event' = [edit_event EXCEPT ![s].value = f]
        /\ StartRun(s, "widget")
        /\ UNCHANGED <<new_event_id, new_event, edit_select, delete_select>>

\* the operator picks another event in "Select Event to Delete"
SelectDelete(s) ==
    \E id \in Range(delete_select[s].options) :
        /\ CanClick(s)
        /\ "tab4" \in page[s]
        /\ id # delete_select[s].value
        /\ delete_select' = [delete_select EXCEPT ![s].value = id]
        /\ StartRun(s, "widget")
        /\ UNCHANGED <<new_event_id, new_event, edit_event, edit_select>>

\* the operator presses a button: st.button(label) is True in the run it starts
PressAdd(s) ==
    /\ CanClick(s)
    /\ StartRun(s, "Add Event")
    /\ UNCHANGED <<new_event_id, new_event, edit_event, edit_select, delete_select>>

PressUpdate(s) ==
    /\ CanClick(s)
    /\ "editor" \in page[s]
    /\ StartRun(s, "Update Event")
    /\ UNCHANGED <<new_event_id, new_event, edit_event, edit_select, delete_select>>

PressDelete(s) ==
    /\ CanClick(s)
    /\ "tab4" \in page[s]
    /\ StartRun(s, "Delete Event")
    /\ UNCHANGED <<new_event_id, new_event, edit_event, edit_select, delete_select>>

\* ----------------------------------------------------- one run of the script
\* A button that is True in every run an interaction started.
button_any(s, label) == trigger[s] \notin {"load", "rerun"}

\* st.button(label): True only in the run its press started.
button(s, label) == trigger[s] = label

\* A validation that accepts when either part is present.
AddValid_either(new_event_id_local, parsed_data) ==
    Truthy(new_event_id_local) \/ parsed_data # <<>>

\* line 99: if new_event_id and parsed_data
AddValid(new_event_id_local, parsed_data) ==
    Truthy(new_event_id_local) /\ parsed_data # <<>>

\* A validation that accepts every table.
UpdateValid_always(updated_data) == TRUE

\* line 135: if updated_data
UpdateValid(updated_data) == updated_data # <<>>

\* tab1 (lines 59-78): fetch_events() and the read-only view.
Tab1(s) ==
    /\ pc[s] = "tab1"
    /\ pc' = [pc EXCEPT ![s] = "tab2"]
    /\ UNCHANGED <<db, calls, clicks, trigger, log, session_keys, new_data_df,
                   edit_event_id, edit_data_df, new_event_id, new_event, edit_event,
                   edit_select, delete_select, page>>

\* tab2 (lines 81-107): the Add tab and its button.
Tab2(s) ==
    LET base == IF "new_data_df" \in session_keys[s] THEN new_data_df[s] ELSE EmptyFrame
        editor == data_editor(new_event[s], base)
        new_data_df_local == editor.value
        parsed_data == DictOfFrame(new_data_df_local)
        row == [id |-> new_event_id[s], data |-> json_dumps(formatted_data(parsed_data))]
        w == Write("add", new_event_id[s], parsed_data, InsertOk(db, row), s)
    IN
    /\ pc[s] = "tab2"
    /\ session_keys' = [session_keys EXCEPT ![s] = @ \cup {"new_data_df"}]
    /\ new_event' = [new_event EXCEPT ![s] = editor]
    /\ IF button(s, "Add Event") /\ AddValid(new_event_id[s], parsed_data)
       THEN /\ db' = add_event(db, new_event_id[s], parsed_data)
            /\ calls' = Record(w)
            /\ log' = [log EXCEPT ![s] = Append(@, w)]
            /\ IF InsertOk(db, row)
               THEN \* st.success, the reset of line 104, st.rerun()
                    /\ new_data_df' = [new_data_df EXCEPT ![s] = EmptyFrame]
                    /\ pc' = [pc EXCEPT ![s] = "rerun"]
                    /\ page' = page
               ELSE \* the insert raises: the run ends here, tab3 and tab4 are not drawn
                    /\ new_data_df' = [new_data_df EXCEPT ![s] = base]
                    /\ pc' = [pc EXCEPT ![s] = "idle"]
                    /\ page' = [page EXCEPT ![s] = {}]
       ELSE /\ new_data_df' = [new_data_df EXCEPT ![s] = base]
            /\ pc' = [pc EXCEPT ![s] = "tab3"]
            /\ UNCHANGED <<db, calls, log, page>>
    /\ UNCHANGED <<clicks, trigger, edit_event_id, edit_data_df, new_event_id,
                   edit_event, edit_select, delete_select>>

\* tab3 (lines 110-135): the Edit tab up to the call of update_event.
Tab3(s) ==
    LET events == fetch_events(db)
        select == selectbox(edit_select[s], EventIds(events))
        edit_event_id_local == select.value
        shown == Truthy(edit_event_id_local) /\ HasEvent(events, edit_event_id_local)
        data_dict == EventOf(events, edit_event_id_local).data
        reload == "edit_data_df" \notin session_keys[s] \/ edit_event_id[s] # edit_event_id_local
        frame == IF reload THEN FrameOfDict(data_dict) ELSE edit_data_df[s]
        editor == data_editor(edit_event[s], frame)
        updated_data == DictOfFrame(editor.value)
    IN
    /\ pc[s] = "tab3"
    /\ edit_select' = [edit_select EXCEPT ![s] = select]
    /\ IF shown
       THEN /\ session_keys' = [session_keys EXCEPT ![s] = @ \cup {"edit_data_df", "edit_event_id"}]
            /\ edit_event_id' = [edit_event_id EXCEPT ![s] = IF reload THEN edit_event_id_local ELSE @]
            /\ edit_data_df' = [edit_data_df EXCEPT ![s] = frame]
            /\ edit_event' = [edit_event EXCEPT ![s] = editor]
            /\ page' = [page EXCEPT ![s] = {"tab3", "editor"}]
            /\ pc' = [pc EXCEPT ![s] =
                        IF button(s, "Update Event") /\ UpdateValid(updated_data)
                        THEN "tab3_button" ELSE "tab4"]
       ELSE /\ page' = [page EXCEPT ![s] = {"tab3"}]
            /\ pc' = [pc EXCEPT ![s] = "tab4"]
            /\ UNCHANGED <<session_keys, edit_event_id, edit_data_df, edit_event>>
    /\ UNCHANGED <<db, calls, clicks, trigger, log, new_data_df, new_event_id,
                   new_event, delete_select>>

\* tab3 (lines 136-138): update_event, st.success, st.rerun()
Tab3Button(s) ==
    LET updated_data == DictOfFrame(edit_event[s].value)
        id == edit_select[s].value
        w == Write("update", id, updated_data, TRUE, s)
    IN
    /\ pc[s] = "tab3_button"
    /\ db' = update_event(db, id, updated_data)
    /\ calls' = Record(w)
    /\ log' = [log EXCEPT ![s] = Append(@, w)]
    /\ pc' = [pc EXCEPT ![s] = "rerun"]
    /\ UNCHANGED <<clicks, trigger, session_keys, new_data_df, edit_event_id,
                   edit_data_df, new_event_id, new_event, edit_event, edit_select,
                   delete_select, page>>

\* The end of a run that reached the end of the script: the toolkit drops the
\* state of the widgets the run did not draw.
EndOfRun(s) ==
    /\ pc' = [pc EXCEPT ![s] = "idle"]
    /\ edit_event' = [edit_event EXCEPT ![s] = IF "editor" \in page[s] THEN @ ELSE NoEditor]

\* tab4 (lines 143-149): the Delete tab up to the call of delete_event.
Tab4(s) ==
    LET events == fetch_events(db)
        select == selectbox(delete_select[s], EventIds(events))
    IN
    /\ pc[s] = "tab4"
    /\ delete_select' = [delete_select EXCEPT ![s] = select]
    /\ page' = [page EXCEPT ![s] = @ \cup {"tab4"}]
    /\ IF button(s, "Delete Event")
       THEN /\ pc' = [pc EXCEPT ![s] = "tab4_button"]
            /\ UNCHANGED edit_event
       ELSE EndOfRun(s)
    /\ UNCHANGED <<db, calls, clicks, trigger, log, session_keys, new_data_df,
                   edit_event_id, edit_data_df, new_event_id, new_event, edit_select>>

\* tab4 (lines 150-152): delete_event, st.success, st.rerun()
Tab4Button(s) ==
    LET id == delete_select[s].value
        w == Write("delete", id, <<>>, TRUE, s)
    IN
    /\ pc[s] = "tab4_button"
    /\ db' = delete_event(db, id)
    /\ calls' = Record(w)
    /\ log' = [log EXCEPT ![s] = Append(@, w)]
    /\ pc' = [pc EXCEPT ![s] = "rerun"]
    /\ UNCHANGED <<clicks, trigger, session_keys, new_data_df, edit_event_id,
                   edit_data_df, new_event_id, new_event, edit_event, edit_select,
                   delete_select, page>>

\* st.rerun(): the run stops and the script runs again, no button pressed.
Rerun(s) ==
    /\ pc[s] = "rerun"
    /\ pc' = [pc EXCEPT ![s] = "tab1"]
    /\ trigger' = [trigger EXCEPT ![s] = "rerun"]
    /\ log' = [log EXCEPT ![s] = <<>>]
    /\ UNCHANGED <<db, calls, clicks, session_keys, new_data_df, edit_event_id,
                   edit_data_df, new_event_id, new_event, edit_event, edit_select,
                   delete_select, page>>

\* ------------------------------------------------------------ specifications
\* A session before its first run: nothing in st.session_state, no widget yet.
InitSessions(open) ==
    /\ pc = [s \in Sessions |-> IF s \in open THEN "tab1" ELSE "closed"]
    /\ trigger = [s \in Sessions |-> "load"]
    /\ log = [s \in Sessions |-> <<>>]
    /\ session_keys = [s \in Sessions |-> {}]
    /\ new_data_df = [s \in Sessions |-> EmptyFrame]
    /\ edit_event_id = [s \in Sessions |-> NoneV]
    /\ edit_data_df = [s \in Sessions |-> EmptyFrame]
    /\ new_event_id = [s \in Sessions |-> ""]
    /\ new_event = [s \in Sessions |-> NoEditor]
    /\ edit_event = [s \in Sessions |-> NoEditor]
    /\ edit_select = [s \in Sessions |-> NoSelect]
    /\ delete_select = [s \in Sessions |-> NoSelect]
    /\ page = [s \in Sessions |-> {}]

\* The table as earlier sessions left it: empty, or rows add_event wrote.
InitialTables ==
    {<<>>,
     add_event(<<>>, "e1", <<<<"a", "x">>>>),
     add_event(add_event(<<>>, "e1", <<<<"a", "x">>>>), "e2", <<<<"a", "x">>>>),
     add_event(add_event(<<>>, "e1", <<<<"a", "x">>>>), "e2", <<<<"b", "x">>>>)}

\* One operator opens the page.
Init ==
    /\ db \in InitialTables
    /\ calls = <<>>
    /\ clicks = MaxClicks
    /\ InitSessions({"s1"})

\* Two operators open the page on the same table.
InitMulti ==
    /\ db \in InitialTables
    /\ calls = <<>>
    /\ clicks = MaxClicks
    /\ InitSessions(Sessions)

Interaction(s) ==
    \/ TypeId(s)
    \/ EditNewTable(s)
    \/ SelectEdit(s)
    \/ EditEditTable(s)
    \/ SelectDelete(s)
    \/ PressAdd(s)
    \/ PressUpdate(s)
    \/ PressDelete(s)

Script(s) ==
    \/ Tab1(s)
    \/ Tab2(s)
    \/ Tab3(s)
    \/ Tab3Button(s)
    \/ Tab4(s)
    \/ Tab4Button(s)
    \/ Rerun(s)

Next == \E s \in Sessions : Interaction(s) \/ Script(s)

\* The repository functions called directly, one call after the other.
ArgDicts ==
    {d \in UNION {[1..n -> ArgKeys \X ArgValues] : n \in 0..Cardinality(ArgKeys)} :
        \A i, j \in 1..Len(d) : d[i][1] = d[j][1] => i = j}

RepoAdd ==
    \E id \in Ids, arg \in ArgDicts :
        /\ db' = add_event(db, id, arg)
        /\ calls' = <<Write("add", id, arg, id \notin TableIds(db), "repo")>>
        /\ UNCHANGED ui_vars

RepoUpdate ==
    \E id \in Ids, arg \in ArgDicts :
        /\ db' = update_event(db, id, arg)
        /\ calls' = <<Write("update", id, arg, TRUE, "repo")>>
        /\ UNCHANGED ui_vars

RepoDelete ==
    \E id \in Ids :
        /\ db' = delete_event(db, id)
        /\ calls' = <<Write("delete", id, <<>>, TRUE, "repo")>>
        /\ UNCHANGED ui_vars

InitRepo ==
    /\ db = <<>>
    /\ calls = <<>>
    /\ clicks = 0
    /\ InitSessions({})

NextRepo == RepoAdd \/ RepoUpdate \/ RepoDelete

Spec == Init /\ [][Next]_vars

SpecMulti == InitMulti /\ [][Next]_vars

SpecRepo == InitRepo /\ [][NextRepo]_vars

\* ------------------------------------------------------------------ claims
\* What the claims say, in their own terms.
NonEmpty(v) == v # "" /\ v # NoneV

\* the entries of a mapping with a non-empty key and a non-empty value
SanitizedPairs(arg) == {p \in Range(arg) : NonEmpty(p[1]) /\ NonEmpty(p[2])}

\* the mapping a fetch shows for the row of an id
Stored(id) == EventOf(fetch_events(db), id).data

\* the mapping of a table: its rows with a non-empty attribute name, the last
\* row of a repeated name
MappingPairs(frame) ==
    {<<frame[i].Attribute, frame[i].Prompt>> :
        i \in {i \in 1..Len(frame) :
                 /\ NonEmpty(frame[i].Attribute)
                 /\ \A j \in (i + 1)..Len(frame) : frame[j].Attribute # frame[i].Attribute}}

Wrote(w) == (w.op = "add" /\ w.ok) \/ (w.op = "update" /\ w.had)

\* C1: the mapping add_event or update_event writes to the row has exactly the
\* entries of the input whose key and value are both non-empty, unaltered.
C1_Sanitized ==
    (calls # <<>> /\ Wrote(Last)) =>
        /\ Last.id \in TableIds(db)
        /\ Range(Stored(Last.id)) = SanitizedPairs(Last.arg)
        /\ Len(Stored(Last.id)) = Cardinality(SanitizedPairs(Last.arg))

C1_Witness ==
    /\ calls # <<>>
    /\ Last.op = "add" /\ Last.ok
    /\ Last.arg = <<<<"", "x">>, <<"a", "">>, <<"b", "x">>>>
    /\ Stored(Last.id) = <<<<"b", "x">>>>

\* C3: after add(id, A) of a fresh id a fetch shows the id with the sanitized
\* A; after update(id, B) it shows the id with the sanitized B only, no key of
\* the earlier mapping surviving unless B has it; after delete(id) it shows no
\* event of that id.
C3_Lifecycle ==
    calls # <<>> =>
        LET w == Last
            events == fetch_events(db)
            mine == {i \in 1..Len(events) : events[i].id = w.id}
        IN /\ (w.op = "add" /\ ~w.had) =>
                /\ Cardinality(mine) = 1
                /\ \A i \in mine : Range(events[i].data) = SanitizedPairs(w.arg)
           /\ (w.op = "update" /\ w.had) =>
                /\ Cardinality(mine) = 1
                /\ \A i \in mine :
                     /\ Range(events[i].data) = SanitizedPairs(w.arg)
                     /\ \A k \in DictKeys(w.before) :
                          k \in DictKeys(events[i].data) => k \in DictKeys(w.arg)
           /\ (w.op = "delete") => mine = {}

C3_Witness ==
    /\ calls # <<>>
    /\ Last.op = "update" /\ Last.had
    /\ \E k \in DictKeys(Last.before) : k \notin DictKeys(Last.arg)
    /\ SanitizedPairs(Last.arg) # {}
    /\ Range(Stored(Last.id)) = SanitizedPairs(Last.arg)

\* C7: update_event never changes the set of ids nor any row but the one of
\* its id, whose id stays; when no row matches, the table is unchanged, no row
\* is created and the call returns.
C7_UpdateFrame ==
    [][(calls' # calls /\ calls'[Len(calls')].op = "update") =>
          LET w == calls'[Len(calls')]
          IN /\ w.ok
             /\ Len(db') = Len(db)
             /\ \A i \in 1..Len(db) :
                  /\ db'[i].id = db[i].id
                  /\ db[i].id # w.id => db'[i] = db[i]
             /\ w.id \notin TableIds(db) => db' = db]_vars

C7_Witness ==
    /\ calls # <<>>
    /\ Last.op = "update" /\ ~Last.had
    /\ SanitizedPairs(Last.arg) # {}
    /\ db # <<>>
    /\ Last.id \notin TableIds(db)

\* C2: a Create submit with an empty id, or with no row that has a non-empty
\* attribute name, is rejected: no add_event, the backend table and the Create
\* table unchanged.
C2_RejectsInvalidCreate ==
    [][\A s \in Sessions :
          (/\ pc[s] = "tab2" /\ pc'[s] # "tab2"
           /\ trigger[s] = "Add Event"
           /\ \/ new_event_id[s] = ""
              \/ MappingPairs(new_event[s].value) = {}) =>
             /\ db' = db
             /\ calls' = calls
             /\ log'[s] = <<>>
             /\ new_event'[s].value = new_event[s].value
             /\ new_data_df'[s] = new_data_df[s]
             /\ pc'[s] = "tab3"]_vars

C2_Witness ==
    \E s \in Sessions :
        /\ pc[s] = "tab3"
        /\ trigger[s] = "Add Event"
        /\ new_event_id[s] = ""
        /\ MappingPairs(new_event[s].value) # {}
        /\ log[s] = <<>>
        /\ calls = <<>>

\* C5: an Edit submit whose table has no row with a non-empty attribute name is
\* rejected, update_event not called and the table unchanged; any other Edit
\* submit calls update_event once, with the selected id and the table's mapping.
C5_EditSubmit ==
    [][\A s \in Sessions :
          /\ (/\ pc[s] = "tab3" /\ pc'[s] # "tab3"
              /\ trigger[s] = "Update Event"
              /\ "editor" \in page'[s]) =>
                IF MappingPairs(edit_event'[s].value) = {}
                THEN pc'[s] = "tab4" /\ db' = db /\ log'[s] = <<>>
                ELSE pc'[s] = "tab3_button" /\ db' = db /\ log'[s] = <<>>
          /\ (pc[s] = "tab3_button" /\ pc'[s] # "tab3_button") =>
                /\ Len(log'[s]) = 1
                /\ log'[s][1].op = "update"
                /\ log'[s][1].id = edit_select[s].value
                /\ Range(log'[s][1].arg) = MappingPairs(edit_event[s].value)
                /\ Len(log'[s][1].arg) = Cardinality(MappingPairs(edit_event[s].value))
                /\ calls'[Len(calls')] = log'[s][1]
                /\ pc'[s] = "rerun"
          /\ (trigger[s] = "Update Event" /\ pc[s] # "tab3_button") => log'[s] = <<>>]_vars

C5_Witness ==
    \E s \in Sessions :
        /\ trigger[s] = "Update Event"
        /\ pc[s] = "tab4"
        /\ "editor" \in page[s]
        /\ edit_event[s].value # EmptyFrame
        /\ MappingPairs(edit_event[s].value) = {}
        /\ log[s] = <<>>

\* C10: a run issues at most one backend write, and only the write of the
\* button whose press started the run; a run any other interaction started
\* writes nothing.
ButtonOf(op) ==
    IF op = "add" THEN "Add Event" ELSE IF op = "update" THEN "Update Event" ELSE "Delete Event"

C10_OneWritePerRun ==
    \A s \in Sessions :
        /\ Len(log[s]) <= 1
        /\ log[s] # <<>> => trigger[s] = ButtonOf(log[s][1].op)

C10_Witness ==
    \E s \in Sessions :
        /\ log[s] # <<>>
        /\ log[s][1].op = "delete"
        /\ trigger[s] = "Delete Event"
        /\ log[s][1].had

\* C9: with two sessions the last write wins: after an update the row shows
\* the sanitized mapping of that update whatever the other session wrote or
\* holds unsaved, and the update is not rejected; a delete removes the row
\* whatever the other session holds.
C9_LastWriteWins ==
    calls # <<>> =>
        LET w == Last
        IN /\ w.op = "update" =>
                /\ w.ok
                /\ w.had => (w.id \in TableIds(db) /\ Range(Stored(w.id)) = SanitizedPairs(w.arg))
           /\ w.op = "delete" => (w.ok /\ w.id \notin TableIds(db))

C9_Witness ==
    /\ Len(calls) = 2
    /\ calls[1].op = "update" /\ calls[2].op = "update"
    /\ calls[1].id = calls[2].id
    /\ calls[1].by # calls[2].by
    /\ calls[1].had /\ calls[2].had
    /\ SanitizedPairs(calls[1].arg) # SanitizedPairs(calls[2].arg)
    /\ \E k \in DictKeys(calls[1].arg) : k \notin DictKeys(calls[2].arg)
    /\ Range(Stored(calls[2].id)) = SanitizedPairs(calls[2].arg)

\* C6: no row a Create or Edit submit writes has an empty attribute mapping.
C6_NoEmptyMappingWritten ==
    \A s \in Sessions :
        \A i \in 1..Len(log[s]) :
            Wrote(log[s][i]) => SanitizedPairs(log[s][i].arg) # {}

\* C8: the Create table starts empty and is empty on the render after a
\* Create submit that succeeded.
C8_ClearedOnSuccess ==
    \A s \in Sessions :
        /\ (trigger[s] = "load" /\ pc[s] \in {"tab3", "tab4", "idle"}) =>
              new_event[s].value = EmptyFrame
        /\ (/\ calls # <<>>
            /\ Last.op = "add" /\ Last.ok /\ Last.by = s
            /\ trigger[s] = "rerun"
            /\ pc[s] \in {"tab3", "tab4", "idle"}) =>
              new_event[s].value = EmptyFrame

\* C4: a render of the Edit tab whose selected id differs from the remembered
\* one (or with no edit table yet) shows exactly the selected event's
\* attributes as fetched and remembers that id, unsaved edits discarded; a
\* render with the remembered id keeps the table and the operator's edits.
C4_SelectionReload ==
    [][\A s \in Sessions :
          (pc[s] = "tab3" /\ pc'[s] # "tab3" /\ "editor" \in page'[s]) =>
             LET sel == edit_select'[s].value
                 attrs == FrameOfDict(Stored(sel))
             IN IF "edit_data_df" \notin session_keys[s] \/ edit_event_id[s] # sel
                THEN /\ edit_data_df'[s] = attrs
                     /\ edit_event_id'[s] = sel
                     /\ edit_event'[s].value = attrs
                ELSE /\ edit_data_df'[s] = edit_data_df[s]
                     /\ edit_event_id'[s] = edit_event_id[s]
                     /\ edit_event[s].exists => edit_event'[s].value = edit_event[s].value]_vars

====
